---- MODULE Spec2Model ----
(***************************************************************************)
(* Model of the EDDN live-market import plugin                             *)
(* (src/tradedangerous/plugins/eddn_plug.py, class ImportPlugin).          *)
(*                                                                         *)
(* One action per loop iteration of _consume_loop; the action that takes a *)
(* frame models the whole of lines 152-183 and, for a commodity frame, the *)
(* whole of _handle_commodity.  Strings are sequences of one-character     *)
(* strings so that strip(), lower(), endswith() and _norm_symbol are       *)
(* computed, not assumed.                                                  *)
(***************************************************************************)
EXTENDS Integers, Sequences, FiniteSets, TLC

(***************************************************************************)
(* Bounds of the model.                                                    *)
(***************************************************************************)
MaxFrames == 2      \* frames received in one run
MaxSymLen == 3      \* the longest name given to _norm_symbol on its own
MaxTime == 1        \* clock ticks after the start of the model

(***************************************************************************)
(* Python values.                                                          *)
(***************************************************************************)
\* A JSON scalar as Python sees it: None (or a missing key), the empty string,
\* an integer, or a string that is not a number.
PyNone == [t |-> "none", v |-> 0]
PyEmpty == [t |-> "empty", v |-> 0]
PyBad == [t |-> "str", v |-> 0]
PyInt(n) == [t |-> "int", v |-> n]

\* bool(x)
Truthy(x) == x.t = "str" \/ (x.t = "int" /\ x.v # 0)

\* x or d
Or(x, d) == IF Truthy(x) THEN x ELSE d

\* int(x) raises ValueError on a non-numeric string
IntRaises(x) == x.t = "str"

(***************************************************************************)
(* Strings.                                                                *)
(***************************************************************************)
Whitespace == {" ", "\t"}

LowerOf == [c \in {"A", "B", "C", "F", "H", "K", "L", "M", "O", "S", "U", "V"} |->
              CASE c = "A" -> "a" [] c = "B" -> "b" [] c = "C" -> "c"
                [] c = "F" -> "f" [] c = "H" -> "h" [] c = "K" -> "k"
                [] c = "L" -> "l" [] c = "M" -> "m" [] c = "O" -> "o"
                [] c = "S" -> "s" [] c = "U" -> "u" [] c = "V" -> "v"]

\* str.lower()
lower(s) == [i \in 1..Len(s) |-> IF s[i] \in DOMAIN LowerOf THEN LowerOf[s[i]] ELSE s[i]]

RECURSIVE lstrip(_)
lstrip(s) == IF s # <<>> /\ Head(s) \in Whitespace THEN lstrip(Tail(s)) ELSE s

RECURSIVE rstrip(_)
rstrip(s) == IF s # <<>> /\ s[Len(s)] \in Whitespace
             THEN rstrip(SubSeq(s, 1, Len(s) - 1)) ELSE s

\* str.strip()
strip(s) == rstrip(lstrip(s))

\* str.endswith(suffix)
endswith(s, suffix) ==
    /\ Len(s) >= Len(suffix)
    /\ SubSeq(s, Len(s) - Len(suffix) + 1, Len(s)) = suffix

\* s.replace('&', 'and')
RECURSIVE ReplaceAmp(_)
ReplaceAmp(s) ==
    IF s = <<>> THEN <<>>
    ELSE IF Head(s) = "&" THEN <<"a", "n", "d">> \o ReplaceAmp(Tail(s))
    ELSE <<Head(s)>> \o ReplaceAmp(Tail(s))

\* re.sub(r"[\s\-]+", "_", s): every maximal run becomes one underscore
RECURSIVE SubRuns(_, _)
SubRuns(s, inRun) ==
    IF s = <<>> THEN <<>>
    ELSE IF Head(s) \in Whitespace \cup {"-"}
         THEN (IF inRun THEN <<>> ELSE <<"_">>) \o SubRuns(Tail(s), TRUE)
         ELSE <<Head(s)>> \o SubRuns(Tail(s), FALSE)

Punctuation == {".", "'", "(", ")", "[", "]", ","}

\* re.sub(r"[\.\'\(\)\[\],]", "", s)
RECURSIVE StripPunct(_)
StripPunct(s) ==
    IF s = <<>> THEN <<>>
    ELSE IF Head(s) \in Punctuation THEN StripPunct(Tail(s))
    ELSE <<Head(s)>> \o StripPunct(Tail(s))

\* Each pair of underscores replaced once, as s.replace("__", "_") does.
RECURSIVE Collapse_PairsOnce(_, _)
Collapse_PairsOnce(s, inRun) ==
    IF s = <<>> THEN <<>>
    ELSE IF Len(s) >= 2 /\ s[1] = "_" /\ s[2] = "_"
         THEN <<"_">> \o Collapse_PairsOnce(Tail(Tail(s)), FALSE)
         ELSE <<Head(s)>> \o Collapse_PairsOnce(Tail(s), FALSE)

\* re.sub(r"_+", "_", s)
RECURSIVE Collapse(_, _)
Collapse(s, inRun) ==
    IF s = <<>> THEN <<>>
    ELSE IF Head(s) = "_"
         THEN (IF inRun THEN <<>> ELSE <<"_">>) \o Collapse(Tail(s), TRUE)
         ELSE <<Head(s)>> \o Collapse(Tail(s), FALSE)

_norm_symbol(name) ==
    Collapse(StripPunct(SubRuns(ReplaceAmp(lower(strip(name))), FALSE)), FALSE)

(***************************************************************************)
(* The catalog store the run starts from (seeded by another importer).     *)
(***************************************************************************)
Sol == <<"S", "o", "l">>
Lave == <<"L", "a", "v", "e">>
Hub == <<"H", "u", "b">>
K7 == <<"K", "7">>

System == {[system_id |-> 1, name |-> Sol], [system_id |-> 2, name |-> Lave]}

Station == {[station_id |-> 1, system_id |-> 1, name |-> Hub],
            [station_id |-> 2, system_id |-> 2, name |-> K7]}

StationIds == {s.station_id : s \in Station}

\* SELECT item_id, name FROM Item, in enumeration order.  Items 2 and 3
\* normalize to the same symbol.
Item == << [item_id |-> 1, name |-> <<"H", " ", "F">>],
           [item_id |-> 2, name |-> <<"A", "-", "M">>],
           [item_id |-> 3, name |-> <<"a", "_", "m">>] >>

\* name = ? COLLATE NOCASE
NoCaseEq(a, b) == lower(a) = lower(b)

(***************************************************************************)
(* The feed: frames the socket can deliver.                                *)
(***************************************************************************)
FleetCarrier == <<"F", "l", "e", "e", "t", "C", "a", "r", "r", "i", "e", "r">>
Orbis == <<"O", "r", "b", "i", "s">>
DockAll == <<"A", "l", "l">>            \* "All": equal to "all" ignoring case
DockFriends == <<"f", "r", "i", "e", "n", "d", "s">>
NoStr == <<>>                           \* a missing key or an empty string

\* msg['timestamp']: missing, unparsable, or the ISO-8601 text of an instant
NoTs == [t |-> "none", unix |-> 0]
BadTs == [t |-> "bad", unix |-> 0]
IsoTs(n) == [t |-> "iso", unix |-> n]

Obs(name, sell, dem, demB, buy, stock, stockB) ==
    [name |-> name, sellPrice |-> sell, demand |-> dem, demandBracket |-> demB,
     buyPrice |-> buy, stock |-> stock, stockBracket |-> stockB]

oHF == Obs(<<"h", "_", "f">>, PyInt(7), PyInt(3), PyInt(2), PyNone, PyInt(0), PyInt(0))
oAM == Obs(<<"A", "-", "M">>, PyNone, PyNone, PyEmpty, PyInt(4), PyInt(9), PyInt(1))
oAM2 == Obs(<<"a", "_", "m">>, PyInt(1), PyInt(1), PyInt(-1), PyInt(2), PyInt(2), PyInt(3))
oUnk == Obs(<<"U">>, PyInt(1), PyInt(1), PyInt(1), PyInt(1), PyInt(1), PyInt(1))
oNoName == Obs(NoStr, PyInt(1), PyInt(1), PyInt(1), PyInt(1), PyInt(1), PyInt(1))
oBad == Obs(<<"H", " ", "F">>, PyBad, PyInt(1), PyInt(1), PyInt(1), PyInt(1), PyInt(1))

\* Station 1 as the feed names it (case and surrounding blanks differ from
\* the catalog's), station 2, a known system with a station that is not in
\* it, and an unknown system.
Place1 == << <<" ", "s", "o", "L">>, <<"H", "U", "B", " ">> >>
Place2 == <<Lave, K7>>
UnknownPlaces == { <<Lave, Hub>>, << <<"V", "o", "i", "d">>, Hub >> }

Msg(sys, st, type, dock, ts, coms) ==
    [systemName |-> sys, stationName |-> st, stationType |-> type,
     carrierDockingAccess |-> dock, timestamp |-> ts, commodities |-> coms]

\* data.get('message') or {} of a document with no message
EmptyMsg == Msg(NoStr, NoStr, NoStr, NoStr, NoTs, <<>>)

\* Complete carrier messages for station 1: a list that resolves at three
\* instants, one that does not; a list whose second observation holds
\* a price that is no number, one with a nameless observation and two
\* observations of one item, and one with an unknown symbol first.  One
\* older message for station 2.
ResolvingMessages ==
    { Msg(Place1[1], Place1[2], FleetCarrier, NoStr, ts, <<oHF>>) :
        ts \in {IsoTs(-1), IsoTs(0), IsoTs(1)} }
    \cup { Msg(Place1[1], Place1[2], FleetCarrier, NoStr, IsoTs(1), <<oUnk>>) }
    \cup { Msg(Place1[1], Place1[2], FleetCarrier, NoStr, IsoTs(1), cl) :
        cl \in { <<oAM, oBad>>, <<oNoName, oAM, oAM2>>, <<oUnk, oHF>> } }
    \cup { Msg(Place2[1], Place2[2], FleetCarrier, NoStr, IsoTs(0), <<oHF>>) }

\* The station types and docking values with a complete message (for
\* station 2); messages that lack their system name and are not public,
\* from a station that is no carrier and from a carrier; and the three
\* other ways of being incomplete.
FilterMessages ==
    { Msg(Lave, K7, FleetCarrier, d, IsoTs(1), <<oHF>>) :
        d \in {NoStr, DockAll, DockFriends} }
    \cup { Msg(Lave, K7, Orbis, d, IsoTs(1), <<oHF>>) : d \in {NoStr, DockFriends} }
    \cup { Msg(NoStr, K7, Orbis, DockFriends, IsoTs(1), <<oHF>>),
           Msg(NoStr, K7, FleetCarrier, DockFriends, IsoTs(1), <<oHF>>) }
    \cup { Msg(Lave, NoStr, FleetCarrier, NoStr, IsoTs(1), <<oHF>>),
           Msg(Lave, K7, FleetCarrier, NoStr, NoTs, <<oHF>>),
           Msg(Lave, K7, FleetCarrier, NoStr, IsoTs(1), <<>>) }

UnknownMessages ==
    { Msg(p[1], p[2], FleetCarrier, DockFriends, IsoTs(1), <<oHF>>) : p \in UnknownPlaces }
    \cup { Msg(Lave, Hub, FleetCarrier, NoStr, IsoTs(1), <<oHF>>) }

Messages == ResolvingMessages \cup FilterMessages \cup UnknownMessages \cup {EmptyMsg}

CommodityRef == <<"eddn", "commodity", "3">>
JournalRef == <<"eddn", "journal", "1">>
OtherRef == <<"eddn", "commodity", "2">>

\* A frame: bytes zlib rejects, bytes json rejects, a JSON value that is not
\* an object, or an object with its $schemaRef (empty when missing).
Frame(kind, ref, msg) == [kind |-> kind, schemaRef |-> ref, message |-> msg]

Frames ==
    { Frame("corrupt", NoStr, EmptyMsg), Frame("badjson", NoStr, EmptyMsg),
      Frame("notdict", NoStr, EmptyMsg), Frame("doc", JournalRef, EmptyMsg),
      Frame("doc", OtherRef, EmptyMsg), Frame("doc", NoStr, EmptyMsg) }
    \cup { Frame("doc", CommodityRef, m) : m \in Messages }

(***************************************************************************)
(* State.                                                                  *)
(***************************************************************************)
VARIABLES
    pc,                 \* where run() is: "idle", "polling", "draining", "closed", "crashed"
    carrier_only,       \* self.carrier_only
    public_only,        \* self.public_only
    optimize,           \* self.optimize
    duration,           \* self.duration
    now,                \* time.time()
    started,            \* the local `started` of run()
    connects,           \* the calls of self._connect() so far
    stats,              \* self._stats
    last_station_mod,   \* self._last_station_mod: a dict, station_id -> unix time
    item_symbol_map,    \* self._item_symbol_map: a dict, symbol -> item_id
    StationItem,        \* committed rows of table StationItem
    txStationItem,      \* the rows as the connection sees them (uncommitted work included)
    in_transaction,     \* a transaction is open on the connection
    docking_access,     \* Station.carrier_docking_access, by station_id
    interrupted,        \* KeyboardInterrupt was caught ("EDDN: interrupted by user")
    closing,            \* what run() has done after the loop, in order
    report,             \* the counters of the final NOTE, once emitted
    received,           \* history: the number of frames the socket delivered
    last,               \* history: the last frame received, what became of it, the SELECTs it cost
    applied,            \* history: per station, the last message whose snapshot committed
    sym_arg,            \* a name given to _norm_symbol on its own
    sym_results         \* what _norm_symbol returned for it, and for that result in turn

config == <<carrier_only, public_only, optimize, duration>>
store == <<StationItem, txStationItem, in_transaction, docking_access>>
history == <<received, last, applied>>
norm == <<sym_arg, sym_results>>

vars == <<pc, config, now, started, connects, stats, last_station_mod, item_symbol_map, store,
          interrupted, closing, report, history, norm>>

StartTime == 2      \* the wall clock when the model starts (after the timestamps of the feed)

Counters == {"messages", "commodity_messages", "journal_messages", "stations_matched",
             "stations_skipped", "items_written", "items_skipped", "carriers_filtered"}

Inc(st, key, n) == [st EXCEPT ![key] = @ + n]

\* dict.get(key, default)
Get(d, key, default) == IF key \in DOMAIN d THEN d[key] ELSE default

\* d[key] = value
Put(d, key, value) == [k \in DOMAIN d \cup {key} |-> IF k = key THEN value ELSE d[k]]

(***************************************************************************)
(* _prepare_item_symbol_map                                                *)
(***************************************************************************)
\* The assignment sym_map[sym] = int(item_id): the last item wins.
SetDefault_Overwrite(d, key, value) == Put(d, key, value)

\* sym_map.setdefault(sym, int(item_id))
SetDefault(d, key, value) == IF key \in DOMAIN d THEN d ELSE Put(d, key, value)

RECURSIVE BuildSymMap(_, _)
BuildSymMap(items, sym_map) ==
    IF items = <<>> THEN sym_map
    ELSE BuildSymMap(Tail(items),
                     SetDefault(sym_map, _norm_symbol(Head(items).name), Head(items).item_id))

EmptyDict == [k \in {} |-> 0]

_prepare_item_symbol_map == BuildSymMap(Item, EmptyDict)

(***************************************************************************)
(* _handle_commodity: the filter (lines 195-203)                           *)
(***************************************************************************)
\* The carrier check reading the wrong flag state: never rejecting.
CarrierRejected_Never(msg, co) == FALSE

CarrierRejected(msg, co) == co /\ strip(msg.stationType) # FleetCarrier

\* The docking value compared with "all" as it is, without lower().
PublicRejected_CaseSensitive(msg, po) ==
    /\ po
    /\ msg.carrierDockingAccess # NoStr
    /\ msg.carrierDockingAccess # <<"a", "l", "l">>

PublicRejected(msg, po) ==
    /\ po
    /\ msg.carrierDockingAccess # NoStr
    /\ lower(msg.carrierDockingAccess) # <<"a", "l", "l">>

\* The completeness test without the station name.
Incomplete_NoStationName(msg) ==
    ~ ( /\ strip(msg.systemName) # NoStr
        /\ msg.timestamp.t # "none"
        /\ msg.commodities # <<>> )

Incomplete(msg) ==
    ~ ( /\ strip(msg.systemName) # NoStr
        /\ strip(msg.stationName) # NoStr
        /\ msg.timestamp.t # "none"
        /\ msg.commodities # <<>> )

(***************************************************************************)
(* _handle_commodity: station resolution (lines 205-224)                   *)
(***************************************************************************)
SystemRows(system_name) == {r \in System : NoCaseEq(r.name, system_name)}

\* The station looked up by name alone, in any system.
StationRows_AnySystem(system_id, station_name) ==
    {r \in Station : NoCaseEq(r.name, station_name)}

StationRows(system_id, station_name) ==
    {r \in Station : r.system_id = system_id /\ NoCaseEq(r.name, station_name)}

(***************************************************************************)
(* _handle_commodity: timestamp and dedupe (lines 236-244)                 *)
(***************************************************************************)
\* _to_unix(ts), or int(time.time()) when it raises
TsUnix(ts, clock) == IF ts.t = "iso" THEN ts.unix ELSE clock

\* last_mod = self._last_station_mod.get(station_id, 0)
\* if last_mod and ts_unix <= last_mod: return
GateRejects(lsm, station_id, ts_unix) ==
    LET last_mod == Get(lsm, station_id, 0)
    IN  last_mod # 0 /\ ts_unix <= last_mod

(***************************************************************************)
(* _handle_commodity: the snapshot transaction (lines 246-291)             *)
(***************************************************************************)
\* The DELETE without its WHERE clause: the rows of every station go.
DeleteStation_AllStations(rows, station_id) == {}

\* The DELETE left out: the old rows stay.
DeleteStation_Skipped(rows, station_id) == rows

\* DELETE FROM StationItem WHERE station_id = ?
DeleteStation(rows, station_id) == {r \in rows : r.station_id # station_id}

\* INSERT OR REPLACE INTO StationItem ...: (station_id, item_id) is the key
InsertOrReplace(rows, row) ==
    {r \in rows : ~(r.station_id = row.station_id /\ r.item_id = row.item_id)} \cup {row}

\* int(c.get(field) or 0) and int((c.get(field) or -1) or -1) raise on "abc"
ObsRaises(c) ==
    \/ IntRaises(Or(c.sellPrice, PyInt(0)))
    \/ IntRaises(Or(c.demand, PyInt(0)))
    \/ IntRaises(Or(Or(c.demandBracket, PyInt(-1)), PyInt(-1)))
    \/ IntRaises(Or(c.buyPrice, PyInt(0)))
    \/ IntRaises(Or(c.stock, PyInt(0)))
    \/ IntRaises(Or(Or(c.stockBracket, PyInt(-1)), PyInt(-1)))

\* The row stamped with the wall clock instead of the message's timestamp.
RowOf_WallClock(station_id, item_id, ts_unix, c) ==
    [station_id |-> station_id, item_id |-> item_id, modified |-> now, from_live |-> 1,
     demand_price |-> Or(c.sellPrice, PyInt(0)).v,
     demand_units |-> Or(c.demand, PyInt(0)).v,
     demand_level |-> Or(Or(c.demandBracket, PyInt(-1)), PyInt(-1)).v,
     supply_price |-> Or(c.buyPrice, PyInt(0)).v,
     supply_units |-> Or(c.stock, PyInt(0)).v,
     supply_level |-> Or(Or(c.stockBracket, PyInt(-1)), PyInt(-1)).v]

\* the parameters of add_stmt for one observation
RowOf(station_id, item_id, ts_unix, c) ==
    [station_id |-> station_id, item_id |-> item_id, modified |-> ts_unix, from_live |-> 1,
     demand_price |-> Or(c.sellPrice, PyInt(0)).v,
     demand_units |-> Or(c.demand, PyInt(0)).v,
     demand_level |-> Or(Or(c.demandBracket, PyInt(-1)), PyInt(-1)).v,
     supply_price |-> Or(c.buyPrice, PyInt(0)).v,
     supply_units |-> Or(c.stock, PyInt(0)).v,
     supply_level |-> Or(Or(c.stockBracket, PyInt(-1)), PyInt(-1)).v]

\* Where the store raises sqlite3.Error during one message, if anywhere: at
\* BEGIN, at DELETE, at the n-th INSERT that is executed, or at COMMIT.
NoFail == [at |-> "none", n |-> 0]
Lengths == {Len(f.message.commodities) : f \in Frames}
MaxInserts == CHOOSE n \in Lengths : \A k \in Lengths : k <= n
FailPoints ==
    {NoFail, [at |-> "begin", n |-> 0], [at |-> "delete", n |-> 0], [at |-> "commit", n |-> 0]}
    \cup {[at |-> "insert", n |-> k] : k \in 1..MaxInserts}

\* Where a KeyboardInterrupt (raised by the signal handler between two
\* bytecodes of the main thread) lands inside the transaction: after the
\* DELETE (n = 0) or after the n-th INSERT, before the COMMIT.
InterruptPoints == {[at |-> "kbd", n |-> k] : k \in 0..MaxInserts}

\* for c in commodities: ... (lines 256-280).  acc is the work so far:
\* the rows as the connection sees them, `written`, the items_skipped
\* increments, and how the loop ended ("ok", "dberr": sqlite3.Error,
\* "raised": another exception, "interrupted": KeyboardInterrupt).
RECURSIVE InsertLoop(_, _, _, _, _, _)
InsertLoop(commodities, station_id, ts_unix, sym_map, fp, acc) ==
    IF fp.at = "kbd" /\ fp.n = acc.written THEN [acc EXCEPT !.status = "interrupted"]
    ELSE IF commodities = <<>> THEN acc
    ELSE LET c == Head(commodities)
             item_id == Get(sym_map, _norm_symbol(c.name), 0)
         IN  IF c.name = NoStr
             THEN InsertLoop(Tail(commodities), station_id, ts_unix, sym_map, fp, acc)
             ELSE IF item_id = 0
             THEN InsertLoop(Tail(commodities), station_id, ts_unix, sym_map, fp,
                             [acc EXCEPT !.skipped = @ + 1])
             ELSE IF ObsRaises(c)
             THEN [acc EXCEPT !.status = "raised"]
             ELSE IF fp.at = "insert" /\ fp.n = acc.written + 1
             THEN [acc EXCEPT !.status = "dberr"]
             ELSE InsertLoop(Tail(commodities), station_id, ts_unix, sym_map, fp,
                             [acc EXCEPT !.rows = InsertOrReplace(@, RowOf(station_id, item_id, ts_unix, c)),
                                         !.written = @ + 1])

\* COMMIT: the work becomes the committed rows
Commit(committed, work) == work

\* The ROLLBACK left out: the work stays pending on the connection.
Rollback_Skipped(committed, work) == work

\* ROLLBACK (or the store's own rollback on the error): the work is undone
Rollback(committed, work) == committed

\* The clock moved by every commit, also one that wrote no row.
ClockAfterCommit_Always(lsm, station_id, ts_unix, written) == Put(lsm, station_id, ts_unix)

\* if written: ... self._last_station_mod[station_id] = ts_unix
ClockAfterCommit(lsm, station_id, ts_unix, written) ==
    IF written # 0 THEN Put(lsm, station_id, ts_unix) ELSE lsm

\* stations_matched counted once per row written instead of once per message.
CountersAfterCommit_PerRow(st, written) ==
    IF written # 0
    THEN Inc(Inc(st, "stations_matched", written), "items_written", written)
    ELSE st

\* if written: self._stats['stations_matched'] += 1
\*             self._stats['items_written'] += written
CountersAfterCommit(st, written) ==
    IF written # 0
    THEN Inc(Inc(st, "stations_matched", 1), "items_written", written)
    ELSE st

\* What one call of _handle_commodity leaves behind.  out names the path
\* taken; station_id and ts_unix are 0 on the paths that return before
\* them: those have not executed both SELECTs of lines 208 and 215.
Result(out, st, lsm, committed, work, intx, dock, dock_failed, station_id, ts_unix) ==
    [out |-> out, stats |-> st, last_station_mod |-> lsm, StationItem |-> committed,
     txStationItem |-> work, in_transaction |-> intx, docking_access |-> dock,
     dock_failed |-> dock_failed, station_id |-> station_id, ts_unix |-> ts_unix,
     lookups |-> IF station_id # 0 THEN 2 ELSE 0]

\* Lines 281-291: what follows the loop over the commodities, acc being the
\* work of the loop.
EndWrite(acc, station_id, ts_unix, fp, st, dock, dock_failed) ==
    LET lsm == last_station_mod
        st1 == Inc(st, "items_skipped", acc.skipped)
    IN  IF acc.status \in {"raised", "interrupted"}
        THEN Result(acc.status, st1, lsm, StationItem, acc.rows, TRUE,
                    dock, dock_failed, station_id, ts_unix)
        ELSE IF acc.status = "dberr" \/ fp.at = "commit"
        THEN Result("rolled_back", st1, lsm, StationItem,
                    Rollback(StationItem, acc.rows), FALSE,
                    dock, dock_failed, station_id, ts_unix)
        ELSE Result("committed",
                    CountersAfterCommit(st1, acc.written),
                    ClockAfterCommit(lsm, station_id, ts_unix, acc.written),
                    Commit(StationItem, acc.rows), Commit(StationItem, acc.rows), FALSE,
                    dock, dock_failed, station_id, ts_unix)

\* Lines 246-291, for a message that passed the gate.
SnapshotWrite(msg, station_id, ts_unix, fp, st, dock, dock_failed) ==
    IF fp.at \in {"begin", "delete"}
    THEN Result("rolled_back", st, last_station_mod, StationItem,
                Rollback(StationItem, txStationItem), FALSE,
                dock, dock_failed, station_id, ts_unix)
    ELSE EndWrite(InsertLoop(msg.commodities, station_id, ts_unix, item_symbol_map, fp,
                             [rows |-> DeleteStation(txStationItem, station_id),
                              written |-> 0, skipped |-> 0, status |-> "ok"]),
                  station_id, ts_unix, fp, st, dock, dock_failed)

\* _handle_commodity(data) with msg = data.get('message') or {}, the store
\* failing at fp, the docking UPDATE failing iff df, and st the counters on
\* entry.  The UPDATE of line 229 is issued before BEGIN and takes effect
\* on its own.
_handle_commodity(msg, fp, df, st) ==
    LET Return(out, st1) ==
            Result(out, st1, last_station_mod, StationItem, txStationItem, in_transaction,
                   docking_access, FALSE, 0, 0)
        system_name == strip(msg.systemName)
        station_name == strip(msg.stationName)
        docking == msg.carrierDockingAccess
    IN  IF CarrierRejected(msg, carrier_only)
        THEN Return("carrier_filtered", Inc(st, "carriers_filtered", 1))
        ELSE IF PublicRejected(msg, public_only)
        THEN Return("public_filtered", Inc(st, "carriers_filtered", 1))
        ELSE IF Incomplete(msg)
        THEN Return("incomplete", st)
        ELSE IF SystemRows(system_name) = {}
        THEN [Return("unknown_system", Inc(st, "stations_skipped", 1)) EXCEPT !.lookups = 1]
        ELSE LET system_id == (CHOOSE r \in SystemRows(system_name) : TRUE).system_id
             IN  IF StationRows(system_id, station_name) = {}
                 THEN [Return("unknown_station", Inc(st, "stations_skipped", 1))
                          EXCEPT !.lookups = 2]
                 ELSE LET station_id ==
                              (CHOOSE r \in StationRows(system_id, station_name) : TRUE).station_id
                          dock_failed == docking # NoStr /\ df
                          dock == IF docking # NoStr /\ ~df
                                  THEN [docking_access EXCEPT ![station_id] = docking]
                                  ELSE docking_access
                          ts_unix == TsUnix(msg.timestamp, now)
                      IN  IF GateRejects(last_station_mod, station_id, ts_unix)
                          THEN Result("stale", st, last_station_mod, StationItem,
                                      txStationItem, in_transaction, dock, dock_failed,
                                      station_id, ts_unix)
                          ELSE SnapshotWrite(msg, station_id, ts_unix, fp, st, dock, dock_failed)

(***************************************************************************)
(* _consume_loop: one frame (lines 152-183)                                *)
(***************************************************************************)
\* What the loop does with a received frame: the handler's result, with
\* out = "corrupt", "badjson" (dropped), "notdict" (AttributeError on
\* data.get), "journal", "other" for the frames that are not commodity ones.
ConsumeFrame(f, fp, df) ==
    LET st == Inc(stats, "messages", 1)
        Drop(out, st1) ==
            Result(out, st1, last_station_mod, StationItem, txStationItem, in_transaction,
                   docking_access, FALSE, 0, 0)
    IN  IF f.kind = "corrupt" THEN Drop("corrupt", st)
        ELSE IF f.kind = "badjson" THEN Drop("badjson", st)
        ELSE IF f.kind = "notdict" THEN Drop("notdict", st)
        ELSE IF endswith(f.schemaRef, <<"commodity", "3">>)
        THEN _handle_commodity(f.message, fp, df, Inc(st, "commodity_messages", 1))
        ELSE IF endswith(f.schemaRef, <<"journal", "1">>)
        THEN Drop("journal", Inc(st, "journal_messages", 1))
        ELSE Drop("other", st)

\* The paths on which an exception other than KeyboardInterrupt leaves
\* _consume_loop and run().
Propagates(out) == out \in {"notdict", "raised"}

(***************************************************************************)
(* Initial state: the plugin constructed (__init__), the store seeded.     *)
(***************************************************************************)
ZeroStats == [k \in Counters |-> 0]

\* Rows another importer left: station 1 lists item 3.
SeededRows ==
    { [station_id |-> 1, item_id |-> 3, modified |-> -1, from_live |-> 0,
       demand_price |-> 1, demand_units |-> 1, demand_level |-> 1,
       supply_price |-> 0, supply_units |-> 0, supply_level |-> 0] }

SeededDocking == [s \in StationIds |-> IF s = 2 THEN DockFriends ELSE NoStr]

NotApplied == [some |-> FALSE, ts_unix |-> 0, commodities |-> <<>>]

Durations == {0, 1}

\* The four counters of the final NOTE (lines 125-127).
ReportOf(st) ==
    [msgs |-> st["messages"], stations |-> st["stations_matched"],
     items |-> st["items_written"], skipped_items |-> st["items_skipped"]]

NoReport == [msgs |-> -1, stations |-> -1, items |-> -1, skipped_items |-> -1]

\* The flags of the runs considered: every pair of the two filter flags,
\* and optimize (read at line 118 only) set and clear.
Options ==
    { [carrier_only |-> FALSE, public_only |-> FALSE, optimize |-> FALSE],
      [carrier_only |-> TRUE, public_only |-> FALSE, optimize |-> TRUE],
      [carrier_only |-> FALSE, public_only |-> TRUE, optimize |-> TRUE],
      [carrier_only |-> TRUE, public_only |-> TRUE, optimize |-> FALSE] }

InitRun ==
    /\ pc = "idle"
    /\ \E o \in Options :
         /\ carrier_only = o.carrier_only
         /\ public_only = o.public_only
         /\ optimize = o.optimize
    /\ duration \in Durations
    /\ now = StartTime
    /\ started = 0
    /\ connects = 0
    /\ stats = ZeroStats
    /\ last_station_mod = EmptyDict
    /\ item_symbol_map = EmptyDict
    /\ StationItem = SeededRows
    /\ txStationItem = SeededRows
    /\ in_transaction = FALSE
    /\ docking_access = SeededDocking
    /\ interrupted = FALSE
    /\ closing = <<>>
    /\ report = NoReport
    /\ received = 0
    /\ last = [frame |-> Frame("none", NoStr, EmptyMsg), out |-> "none",
               station_id |-> 0, ts_unix |-> 0, lookups |-> 0]
    /\ applied = [s \in StationIds |-> NotApplied]

Init ==
    /\ InitRun
    /\ sym_arg = <<>>
    /\ sym_results = <<>>

(***************************************************************************)
(* run()                                                                   *)
(***************************************************************************)
\* The report left out when the loop was interrupted.
RunTail_NoReportOnInterrupt(exc, opt) ==
    IF exc = "other" THEN <<"close_socket">>
    ELSE <<"close_socket">> \o (IF opt THEN <<"vacuum">> ELSE <<>>)
         \o (IF exc = "KeyboardInterrupt" THEN <<"close_store">>
             ELSE <<"close_store", "report">>)

\* Lines 105-127, after the loop has ended with exc ("none": it returned;
\* "KeyboardInterrupt": caught at line 107; "other": any other exception,
\* which leaves run() after the finally clause): what run() does, in order.
RunTail(exc, opt) ==
    IF exc = "other" THEN <<"close_socket">>
    ELSE <<"close_socket">> \o (IF opt THEN <<"vacuum">> ELSE <<>>)
         \o <<"close_store", "report">>

\* self.tdb.close(): the connection goes, and uncommitted work with it
CloseStore(committed, work) == committed

\* Lines 96-103: build the symbol map, connect, note the start time.
Start ==
    /\ pc = "idle"
    /\ item_symbol_map' = _prepare_item_symbol_map
    /\ connects' = connects + 1
    /\ started' = now
    /\ pc' = "polling"
    /\ UNCHANGED <<config, norm, now, stats, last_station_mod, store, interrupted, closing, report,
                   history>>

\* The expiry test without its guard on a zero duration.
Expired_ZeroCounts(d, t, t0) == t - t0 >= d

\* if self.duration and (time.time() - started) >= self.duration
Expired(d, t, t0) == d # 0 /\ t - t0 >= d

\* Line 146-147: the loop returns.
LoopExpire ==
    /\ pc = "polling"
    /\ Expired(duration, now, started)
    /\ pc' = "draining"
    /\ UNCHANGED <<config, norm, now, started, connects, stats, last_station_mod, item_symbol_map, store,
                   interrupted, closing, report, history>>

\* Lines 148-154: the poll times out, or recv raises Again: continue.
PollTimeout ==
    /\ pc = "polling"
    /\ ~Expired(duration, now, started)
    /\ UNCHANGED vars

\* Lines 148-183 with a frame received.
PollFrame ==
    /\ pc = "polling"
    /\ ~Expired(duration, now, started)
    /\ received < MaxFrames
    /\ received' = received + 1
    /\ \E f \in Frames, df \in BOOLEAN :
         /\ df => f.message.carrierDockingAccess # NoStr
         /\ \E clean \in {ConsumeFrame(f, NoFail, df)} :
            \E fp \in IF clean.out \in {"committed", "raised"} THEN FailPoints ELSE {NoFail} :
            \E res \in {IF fp = NoFail THEN clean ELSE ConsumeFrame(f, fp, df)} :
             /\ fp # NoFail => res.out = "rolled_back"
             /\ df => res.dock_failed
             /\ stats' = res.stats
             /\ last_station_mod' = res.last_station_mod
             /\ StationItem' = res.StationItem
             /\ txStationItem' = res.txStationItem
             /\ in_transaction' = res.in_transaction
             /\ docking_access' = res.docking_access
             /\ pc' = IF Propagates(res.out) THEN "crashed" ELSE "polling"
             /\ closing' = IF Propagates(res.out) THEN RunTail("other", optimize) ELSE closing
             /\ last' = [frame |-> f, out |-> res.out, station_id |-> res.station_id,
                         ts_unix |-> res.ts_unix, lookups |-> res.lookups]
             /\ applied' = IF res.out = "committed"
                           THEN [applied EXCEPT ![res.station_id] =
                                   [some |-> TRUE, ts_unix |-> res.ts_unix,
                                    commodities |-> f.message.commodities]]
                           ELSE applied
    /\ UNCHANGED <<config, norm, now, started, connects, item_symbol_map, interrupted, report>>

\* Lines 148-183 with a frame received and a KeyboardInterrupt raised while
\* its snapshot transaction is open: no handler of _handle_commodity or
\* _consume_loop catches it, line 107 does.
InterruptedFrame ==
    /\ pc = "polling"
    /\ ~Expired(duration, now, started)
    /\ received < MaxFrames
    /\ received' = received + 1
    /\ \E f \in Frames, ip \in InterruptPoints :
         \E res \in {ConsumeFrame(f, ip, FALSE)} :
             /\ res.out = "interrupted"
             /\ stats' = res.stats
             /\ last_station_mod' = res.last_station_mod
             /\ StationItem' = res.StationItem
             /\ txStationItem' = res.txStationItem
             /\ in_transaction' = res.in_transaction
             /\ docking_access' = res.docking_access
             /\ last' = [frame |-> f, out |-> res.out, station_id |-> res.station_id,
                         ts_unix |-> res.ts_unix, lookups |-> res.lookups]
    /\ interrupted' = TRUE
    /\ pc' = "draining"
    /\ UNCHANGED <<config, norm, now, started, connects, item_symbol_map, closing, report, applied>>

\* Lines 107-108: KeyboardInterrupt while the loop waits.
Interrupt ==
    /\ pc = "polling"
    /\ interrupted' = TRUE
    /\ pc' = "draining"
    /\ UNCHANGED <<config, norm, now, started, connects, stats, last_station_mod, item_symbol_map, store,
                   closing, report, history>>

\* Lines 109-129: the finally clause and what follows it.
Shutdown ==
    /\ pc = "draining"
    /\ closing' = RunTail(IF interrupted THEN "KeyboardInterrupt" ELSE "none", optimize)
    /\ txStationItem' = CloseStore(StationItem, txStationItem)
    /\ in_transaction' = FALSE
    /\ report' = IF \E i \in DOMAIN closing' : closing'[i] = "report"
                 THEN ReportOf(stats) ELSE report
    /\ pc' = "closed"
    /\ UNCHANGED <<config, norm, now, started, connects, stats, last_station_mod, item_symbol_map,
                   StationItem, docking_access, interrupted, history>>

\* time.time() advances.
Tick ==
    /\ pc = "polling"
    /\ ~Expired(duration, now, started)
    /\ now < StartTime + MaxTime
    /\ now' = now + 1
    /\ UNCHANGED <<pc, config, norm, started, connects, stats, last_station_mod, item_symbol_map, store,
                   interrupted, closing, report, history>>

Next ==
    \/ Start
    \/ LoopExpire
    \/ PollTimeout
    \/ PollFrame
    \/ InterruptedFrame
    \/ Interrupt
    \/ Shutdown
    \/ Tick

Spec == Init /\ [][Next]_vars

\* The clock advances, the loop comes back to its expiry test (a poll
\* waits at most 500 ms and a message is handled in finitely many steps),
\* and run() goes on after the loop.
LiveSpec == Spec /\ WF_vars(Tick) /\ WF_vars(LoopExpire) /\ WF_vars(Shutdown)

(***************************************************************************)
(* _norm_symbol on its own: a name over the characters it treats           *)
(* specially, normalized, and the result normalized again.                 *)
(***************************************************************************)
SymChars == {"A", "b", " ", "\t", "-", "_", "&", ".", "'", "(", ")", "[", "]", ","}

Names == UNION {[1..n -> SymChars] : n \in 0..MaxSymLen}

NormInit ==
    /\ InitRun
    /\ ~carrier_only /\ ~public_only /\ duration = 0
    /\ sym_arg \in Names
    /\ sym_results = <<>>

Normalize ==
    /\ Len(sym_results) < 2
    /\ sym_results' = Append(sym_results,
                             _norm_symbol(IF sym_results = <<>> THEN sym_arg
                                          ELSE sym_results[Len(sym_results)]))
    /\ UNCHANGED <<pc, config, now, started, connects, stats, last_station_mod, item_symbol_map,
                   store, interrupted, closing, report, history, sym_arg>>

NormNext == Normalize

NormSpec == NormInit /\ [][NormNext]_vars

(***************************************************************************)
(* Vocabulary of the properties.                                           *)
(***************************************************************************)
\* This step received a frame.
FrameStep == received' = received + 1

RowsOf(rows, station_id) == {r \in rows : r.station_id = station_id}

\* The catalog items the observations of a message resolve to.
ResolvedItems(commodities) ==
    { Get(item_symbol_map, _norm_symbol(commodities[i].name), 0) :
        i \in {j \in 1..Len(commodities) : commodities[j].name # NoStr} } \ {0}

\* The rows of a station are the snapshot of one message: one row per
\* resolved item of its list, every row stamped with its timestamp.
IsSnapshotOf(rows, station_id, ts_unix, commodities) ==
    /\ {r.item_id : r \in RowsOf(rows, station_id)} = ResolvedItems(commodities)
    /\ \A r \in RowsOf(rows, station_id) : r.modified = ts_unix /\ r.from_live = 1

\* The counters other than the given ones are unchanged by this step.
OnlyCountersChange(keys) == \A k \in Counters \ keys : stats'[k] = stats[k]

(***************************************************************************)
(* C1  Monotonic replace.  When the snapshot of a message with timestamp   *)
(* T1 has been applied to station S and a complete, unfiltered message for *)
(* S with timestamp T2 > T1 is then handled without a storage error or an  *)
(* exception, the message is not rejected and the rows of S are exactly    *)
(* the resolved items of the T2 message, every one stamped T2: no row of   *)
(* the T1 message remains.                                                 *)
(***************************************************************************)
C1_MonotonicReplace ==
    [][\A s \in StationIds :
         ( /\ FrameStep
           /\ last'.station_id = s
           /\ last'.out \in {"stale", "committed"}
           /\ applied[s].some
           /\ applied[s].ts_unix < last'.ts_unix )
         => /\ last'.out = "committed"
            /\ IsSnapshotOf(StationItem', s, last'.ts_unix, last'.frame.message.commodities)
            /\ \A r \in RowsOf(StationItem', s) : r.modified # applied[s].ts_unix
    ]_vars

\* Two snapshots of station 1 committed in a row, the second one newer and
\* with a different item than the first.
C1_Witness ==
    /\ last.out = "committed" /\ last.station_id = 1 /\ last.ts_unix = 1
    /\ stats["stations_matched"] = 2
    /\ ~applied[2].some
    /\ {r.item_id : r \in RowsOf(StationItem, 1)} = {2}

(***************************************************************************)
(* C2  Stale rejection.  When a last-accepted timestamp T2 is recorded for *)
(* station S, handling a message for S with timestamp T <= T2 deletes and  *)
(* inserts no StationItem row and leaves stations_matched,                 *)
(* stations_skipped, items_written and items_skipped unchanged.            *)
(***************************************************************************)
C2_StaleRejection ==
    [][\A s \in StationIds :
         ( /\ FrameStep
           /\ last'.station_id = s
           /\ s \in DOMAIN last_station_mod
           /\ last'.ts_unix <= last_station_mod[s] )
         => /\ StationItem' = StationItem
            /\ txStationItem' = txStationItem
            /\ \A k \in {"stations_matched", "stations_skipped", "items_written",
                          "items_skipped"} : stats'[k] = stats[k]
    ]_vars

(***************************************************************************)
(* C3  Acceptance rule.  A message for station S with timestamp T passes   *)
(* the dedup gate if and only if no last-accepted timestamp is recorded    *)
(* for S or T is strictly greater than the recorded one, for every integer *)
(* T (zero and negative ones included).                                    *)
(***************************************************************************)
C3_AcceptanceRule ==
    [][\A s \in StationIds :
         ( /\ FrameStep
           /\ last'.station_id = s
           /\ last'.out \in {"stale", "committed", "rolled_back", "raised"} )
         => ( last'.out # "stale"
              <=> (s \notin DOMAIN last_station_mod \/ last'.ts_unix > last_station_mod[s]) )
    ]_vars

(***************************************************************************)
(* C4  Atomic rollback.  When the store fails at BEGIN, at DELETE, at any  *)
(* INSERT or at COMMIT of a snapshot replacement, nothing of it stays: the *)
(* committed rows and the rows the connection sees are those from before   *)
(* the message, no transaction is left open, the last-accepted timestamps  *)
(* are unchanged, and the loop goes on polling.                            *)
(***************************************************************************)
C4_AtomicRollback ==
    [][( FrameStep /\ last'.out = "rolled_back" )
         => /\ StationItem' = StationItem
            /\ txStationItem' = StationItem
            /\ ~in_transaction'
            /\ last_station_mod' = last_station_mod
            /\ pc' = "polling"
    ]_vars

\* A failed replacement of a station that held an applied snapshot, whose
\* rows are still there.
C4_Witness ==
    /\ last.out = "rolled_back"
    /\ applied[last.station_id].some
    /\ RowsOf(StationItem, last.station_id) # {}
    /\ Len(last.frame.message.commodities) > 1
    /\ pc = "polling"

(***************************************************************************)
(* C5  Snapshot integrity.  In every committed state, the rows of a        *)
(* station the ingester has written are the snapshot of one message, the   *)
(* last one applied to it: one row per resolved commodity of that message, *)
(* all with its timestamp; a station it has not written keeps its seeded   *)
(* rows.                                                                   *)
(***************************************************************************)
C5_SnapshotIntegrity ==
    \A s \in StationIds :
        IF applied[s].some
        THEN IsSnapshotOf(StationItem, s, applied[s].ts_unix, applied[s].commodities)
        ELSE RowsOf(StationItem, s) = RowsOf(SeededRows, s)

\* Station 1 rewritten twice, its rows those of the second message.
C5_Witness ==
    /\ applied[1].some /\ applied[1].ts_unix = 1
    /\ stats["stations_matched"] = 2 /\ ~applied[2].some
    /\ \E r \in RowsOf(StationItem, 1) : r.item_id = 1 /\ r.modified = 1

(***************************************************************************)
(* C6  Unknown entity skip.  A complete commodity message that passes the  *)
(* carrier and public checks and names a system, or a station within the   *)
(* matched system, that the catalog does not hold adds one to              *)
(* stations_skipped and changes nothing else: no StationItem row, no       *)
(* docking-access value, no last-accepted timestamp, no other counter      *)
(* than messages and commodity_messages.                                   *)
(***************************************************************************)
IsCommodityFrame(f) == f.kind = "doc" /\ endswith(f.schemaRef, <<"commodity", "3">>)

\* The catalog holds no station of that name in a system of that name.
NamesNoStation(msg) ==
    ~ \E sy \in System, st \in Station :
        /\ st.system_id = sy.system_id
        /\ lower(sy.name) = lower(strip(msg.systemName))
        /\ lower(st.name) = lower(strip(msg.stationName))

PassesFilter(msg) ==
    /\ ~(carrier_only /\ strip(msg.stationType) # FleetCarrier)
    /\ ~(public_only /\ msg.carrierDockingAccess # NoStr
                     /\ lower(msg.carrierDockingAccess) # <<"a", "l", "l">>)
    /\ ~Incomplete(msg)

C6_UnknownEntitySkip ==
    [][( /\ FrameStep
         /\ IsCommodityFrame(last'.frame)
         /\ PassesFilter(last'.frame.message)
         /\ NamesNoStation(last'.frame.message) )
         => /\ stats'["stations_skipped"] = stats["stations_skipped"] + 1
            /\ stats'["commodity_messages"] = stats["commodity_messages"] + 1
            /\ OnlyCountersChange({"messages", "commodity_messages", "stations_skipped"})
            /\ StationItem' = StationItem
            /\ txStationItem' = txStationItem
            /\ docking_access' = docking_access
            /\ last_station_mod' = last_station_mod
    ]_vars

\* A message with a docking value for a station of another system, skipped
\* after a snapshot was applied.
C6_Witness ==
    /\ last.out = "unknown_station"
    /\ last.frame.message.carrierDockingAccess # NoStr
    /\ stats["stations_skipped"] = 1
    /\ stats["stations_matched"] = 1

(***************************************************************************)
(* C7  Carrier filter ordering.  With carrier_only set, a commodity        *)
(* message whose station type is not the fleet-carrier type adds exactly   *)
(* one to carriers_filtered and nothing to stations_matched or             *)
(* stations_skipped, whatever else it holds (also when it is incomplete or *)
(* fails the public check as well).                                        *)
(***************************************************************************)
C7_CarrierFilterOrdering ==
    [][( /\ FrameStep
         /\ carrier_only
         /\ IsCommodityFrame(last'.frame)
         /\ strip(last'.frame.message.stationType) # FleetCarrier )
         => /\ stats'["carriers_filtered"] = stats["carriers_filtered"] + 1
            /\ stats'["stations_matched"] = stats["stations_matched"]
            /\ stats'["stations_skipped"] = stats["stations_skipped"]
    ]_vars

\* A non-carrier message that is also incomplete and also not public,
\* filtered once with both flags set.
C7_Witness ==
    /\ carrier_only /\ public_only
    /\ last.out = "carrier_filtered"
    /\ Incomplete(last.frame.message)
    /\ last.frame.message.carrierDockingAccess = DockFriends
    /\ stats["carriers_filtered"] = 1

(***************************************************************************)
(* C8  Resilience to malformed frames.  A frame that does not decompress,  *)
(* or whose body is not a JSON document, or is one of another shape than   *)
(* an object, adds one to messages and changes nothing else, and the loop  *)
(* goes on polling.                                                        *)
(***************************************************************************)
C8_MalformedFrames ==
    [][( FrameStep /\ last'.frame.kind \in {"corrupt", "badjson", "notdict"} )
         => /\ pc' = "polling"
            /\ OnlyCountersChange({"messages"})
            /\ UNCHANGED <<last_station_mod, item_symbol_map, store, report, applied>>
    ]_vars

(***************************************************************************)
(* C9  Per-message error isolation.  Whatever a frame that decodes to a    *)
(* JSON object holds (a price that is no number included), handling it     *)
(* ends with the loop polling for the next frame.                          *)
(***************************************************************************)
C9_ErrorIsolation ==
    [][( FrameStep /\ last'.frame.kind = "doc" ) => pc' = "polling"]_vars

C11_UniformShutdown ==
    pc = "closed" =>
        /\ closing = <<"close_socket">> \o (IF optimize THEN <<"vacuum">> ELSE <<>>)
                      \o <<"close_store", "report">>
        /\ report = ReportOf(stats)

\* An interrupted run with optimize set that has reported its one frame.
C11_Witness ==
    /\ pc = "closed" /\ interrupted /\ optimize
    /\ Len(closing) = 4
    /\ report.msgs = 1

(***************************************************************************)
(* C12  Cooperative cancellation.  When the loop has been left, no         *)
(* snapshot replacement is half-applied on the connection and no           *)
(* transaction is open: the message in flight was committed or rolled back *)
(* first.                                                                  *)
(***************************************************************************)
C12_CooperativeCancellation ==
    pc = "draining" => ( ~in_transaction /\ txStationItem = StationItem )

(***************************************************************************)
(* C13  Symbol normalization is idempotent.  For every name over letters   *)
(* of both cases, blanks, tabs, '-', '_', '&' and the stripped punctuation *)
(* marks, normalizing the normalized name returns it unchanged.            *)
(***************************************************************************)
C13_NormIdempotent ==
    Len(sym_results) = 2 => sym_results[2] = sym_results[1]

\* A name that normalization changes in every one of its steps, normalized
\* twice.
C13_Witness ==
    /\ Len(sym_results) = 2
    /\ sym_arg = <<"&", " ", "_">>
    /\ sym_results[1] = <<"a", "n", "d", "_">>

(***************************************************************************)
(* C14  Docking-access update ordering.  Handling a frame changes a        *)
(* station's docking-access value only when the message passed the dedup   *)
(* gate and its rows were committed: a message rejected as stale, or       *)
(* rolled back, leaves the docking-access values as they were.             *)
(***************************************************************************)
C14_DockingOrdering ==
    [][( FrameStep /\ docking_access' # docking_access ) => last'.out = "committed"]_vars

(***************************************************************************)
(* C15  Clock update rule.  Handling a frame changes the last-accepted     *)
(* timestamps only by setting that of the message's station to the         *)
(* message's timestamp, the message having committed with at least one row *)
(* written; a message that is filtered, incomplete, unresolved, rejected   *)
(* as stale or rolled back, or that commits no row, leaves them as they    *)
(* were.                                                                   *)
(***************************************************************************)
C15_ClockUpdateRule ==
    [][FrameStep =>
         /\ last_station_mod' # last_station_mod
              => /\ last'.out = "committed"
                 /\ stats'["items_written"] > stats["items_written"]
                 /\ \E r \in RowsOf(StationItem', last'.station_id) :
                        r.modified = last'.ts_unix
                 /\ last_station_mod' = Put(last_station_mod, last'.station_id, last'.ts_unix)
         /\ ( \/ last'.out \in {"carrier_filtered", "public_filtered", "incomplete",
                                "unknown_system", "unknown_station", "stale", "rolled_back"}
              \/ ( IsCommodityFrame(last'.frame)
                   /\ ResolvedItems(last'.frame.message.commodities) = {} ) )
              => last_station_mod' = last_station_mod
    ]_vars

\* A message that committed no row after one that moved the clock of the
\* same station: the clock still holds the first one's timestamp.
C15_Witness ==
    /\ last.out = "committed" /\ last.station_id = 1 /\ last.ts_unix = 1
    /\ ResolvedItems(last.frame.message.commodities) = {}
    /\ 1 \in DOMAIN last_station_mod /\ last_station_mod[1] = -1
    /\ RowsOf(StationItem, 1) = {}

(***************************************************************************)
(* C16  Zero-write resend, as the claim states it.  Right after a message  *)
(* for station S with timestamp T was processed with no commodity          *)
(* resolving, the same message again is rejected as stale, and a message   *)
(* for S with a later timestamp is not.                                    *)
(***************************************************************************)
C16_ZeroWriteResend_Claim ==
    [][( /\ FrameStep
         /\ last.out = "committed"
         /\ ResolvedItems(last.frame.message.commodities) = {}
         /\ last'.station_id = last.station_id
         /\ last'.out \in {"stale", "committed"} )
         => /\ last'.frame = last.frame => last'.out = "stale"
            /\ last'.ts_unix > last.ts_unix => last'.out = "committed"
    ]_vars

(***************************************************************************)
(* C16  Zero-write resend, amended.  Right after a message for station S   *)
(* with timestamp T was processed with no commodity resolving, a message   *)
(* for S with timestamp T or later is not rejected as stale; the same      *)
(* message again, when it commits, again writes no row and leaves the      *)
(* last-accepted timestamps as they were.                                  *)
(***************************************************************************)
C16_ZeroWriteResend ==
    [][( /\ FrameStep
         /\ last.out = "committed"
         /\ ResolvedItems(last.frame.message.commodities) = {}
         /\ last'.station_id = last.station_id
         /\ last'.ts_unix >= last.ts_unix )
         => /\ last'.out # "stale"
            /\ ( last'.frame = last.frame /\ last'.out = "committed" )
                 => /\ stats'["items_written"] = stats["items_written"]
                    /\ stats'["items_skipped"] > stats["items_skipped"]
                    /\ last_station_mod' = last_station_mod
    ]_vars

\* Two messages for station 1, neither resolving a commodity, both
\* processed: nothing written, no timestamp recorded.
C16_Witness ==
    /\ received = 2 /\ last.out = "committed" /\ last.station_id = 1
    /\ stats["items_skipped"] = 2 /\ stats["items_written"] = 0
    /\ last_station_mod = EmptyDict

(***************************************************************************)
(* C17  Every observation is accounted for.  For a message whose snapshot  *)
(* commits, the increase of items_written plus the increase of             *)
(* items_skipped equals the number of observations in its list.            *)
(***************************************************************************)
C17_ObservationAccounting ==
    [][( FrameStep /\ last'.out = "committed" )
         => (stats'["items_written"] - stats["items_written"])
            + (stats'["items_skipped"] - stats["items_skipped"])
            = Len(last'.frame.message.commodities)
    ]_vars

(***************************************************************************)
(* C18  Field mapping.  Every row of a committed snapshot holds the fields *)
(* of an observation of the message that resolves to its item: the prices  *)
(* and units as given (0 when absent), the brackets as given, 0 included,  *)
(* and -1 only for a bracket that is absent, empty or -1.                  *)
(***************************************************************************)
C18_FieldMapping ==
    [][( FrameStep /\ last'.out = "committed" )
         => \A r \in RowsOf(StationItem', last'.station_id) :
              \E i \in 1..Len(last'.frame.message.commodities) :
                LET c == last'.frame.message.commodities[i]
                    IntOr(x, d) == IF x.t = "int" THEN x.v ELSE d
                IN  /\ c.name # NoStr
                    /\ Get(item_symbol_map, _norm_symbol(c.name), 0) = r.item_id
                    /\ r.demand_price = IntOr(c.sellPrice, 0)
                    /\ r.demand_units = IntOr(c.demand, 0)
                    /\ r.demand_level = IntOr(c.demandBracket, -1)
                    /\ r.supply_price = IntOr(c.buyPrice, 0)
                    /\ r.supply_units = IntOr(c.stock, 0)
                    /\ r.supply_level = IntOr(c.stockBracket, -1)
    ]_vars

C20_FilterBeforeStore ==
    [][FrameStep /\ IsCommodityFrame(last'.frame) =>
         LET msg == last'.frame.message
             notCarrier == carrier_only /\ strip(msg.stationType) # FleetCarrier
             notPublic == /\ public_only
                          /\ msg.carrierDockingAccess # NoStr
                          /\ lower(msg.carrierDockingAccess) # <<"a", "l", "l">>
             lacks == \/ strip(msg.systemName) = NoStr
                      \/ strip(msg.stationName) = NoStr
                      \/ msg.timestamp.t = "none"
                      \/ msg.commodities = <<>>
         IN  ( notCarrier \/ notPublic \/ lacks )
             => /\ last'.lookups = 0
                /\ UNCHANGED <<store, last_station_mod>>
                /\ ( ~notCarrier /\ ~notPublic )
                     => OnlyCountersChange({"messages", "commodity_messages"})
    ]_vars

\* A message with no station name, dropped after a snapshot was applied.
C20_Witness ==
    /\ last.out = "incomplete"
    /\ last.frame.message.stationName = NoStr
    /\ last.frame.message.systemName # NoStr
    /\ stats["stations_matched"] = 1
    /\ stats["stations_skipped"] = 0

(***************************************************************************)
(* C21  Run lifecycle.  A run moves only along Idle -> Connected ->        *)
(* Polling <-> Processing -> Draining -> Closed (setup takes it from Idle  *)
(* through Connected to Polling, a handled frame from Polling through      *)
(* Processing back to Polling); the connection is established exactly once *)
(* and never again; no frame is polled or processed once the run is        *)
(* Draining; Closed is terminal.                                           *)
(***************************************************************************)
C21_RunLifecycle ==
    [][/\ <<pc, pc'>> \in { <<"idle", "polling">>, <<"polling", "polling">>,
                            <<"polling", "draining">>, <<"draining", "closed">> }
       /\ connects' = IF pc = "idle" THEN 1 ELSE connects
       /\ pc' # "idle" => connects' = 1
       /\ pc \in {"draining", "closed"} => received' = received /\ stats' = stats
    ]_vars

(***************************************************************************)
(* C22  Schema dispatch.  For every frame that decompresses and parses,    *)
(* exactly one of three things happens, by its schema reference: suffix    *)
(* /commodity/3 adds one to commodity_messages and hands the message to    *)
(* commodity processing; suffix /journal/1 adds one to journal_messages    *)
(* and changes nothing else; any other or missing schema reference changes *)
(* no counter but messages and no store state, without an error.           *)
(***************************************************************************)
C22_SchemaDispatch ==
    [][( FrameStep /\ last'.frame.kind \in {"doc", "notdict"} )
         => LET f == last'.frame
                HasSuffix(suffix) == f.kind = "doc" /\ endswith(f.schemaRef, suffix)
            IN  IF HasSuffix(<<"commodity", "3">>)
                THEN /\ stats'["commodity_messages"] = stats["commodity_messages"] + 1
                     /\ stats'["journal_messages"] = stats["journal_messages"]
                     /\ last'.out \notin {"journal", "other", "notdict"}
                ELSE IF HasSuffix(<<"journal", "1">>)
                THEN /\ stats'["journal_messages"] = stats["journal_messages"] + 1
                     /\ OnlyCountersChange({"messages", "journal_messages"})
                     /\ pc' = "polling"
                     /\ UNCHANGED <<last_station_mod, item_symbol_map, store, applied>>
                ELSE /\ OnlyCountersChange({"messages"})
                     /\ pc' = "polling"
                     /\ UNCHANGED <<last_station_mod, item_symbol_map, store, applied>>
    ]_vars

\* The normalized display name of each catalog item, in enumeration order.
ItemSymbols == [i \in DOMAIN Item |-> _norm_symbol(Item[i].name)]

(***************************************************************************)
(* C23  Symbol map construction.  From the start of the run on, the symbol *)
(* map holds exactly the normalized display names of the catalog as keys,  *)
(* each mapped to the item id of the first catalog item, in enumeration    *)
(* order, with that normalized name (a later item with the same key is     *)
(* dropped); being the same in every later state, it is not modified       *)
(* during the run.                                                         *)
(***************************************************************************)
C23_SymbolMapConstruction ==
    pc # "idle" =>
      /\ DOMAIN item_symbol_map = {ItemSymbols[i] : i \in DOMAIN Item}
      /\ \A i \in DOMAIN Item :
           (\A j \in 1..(i - 1) : ItemSymbols[j] # ItemSymbols[i])
           => item_symbol_map[ItemSymbols[i]] = Item[i].item_id

\* The run has ended after its frames; the key shared by items 2 and 3 maps
\* to item 2, and a row of item 2 was written through it.
C23_Witness ==
    /\ pc = "closed"
    /\ received = MaxFrames
    /\ ItemSymbols[2] = ItemSymbols[3]
    /\ item_symbol_map[ItemSymbols[3]] = 2
    /\ \E r \in StationItem : r.item_id = 2 /\ r.from_live = 1

(***************************************************************************)
(* C24  No out-of-order application.  For every station S the timestamps   *)
(* of the successive committed snapshot replacements of S (one that wrote  *)
(* no row included) are strictly increasing: once a message with timestamp *)
(* T has been applied to S, no message with a timestamp <= T is applied to *)
(* S afterwards.                                                           *)
(***************************************************************************)
C24_NoOutOfOrder ==
    [][\A s \in StationIds :
         ( /\ FrameStep
           /\ last'.out = "committed"
           /\ last'.station_id = s
           /\ applied[s].some )
         => last'.ts_unix > applied[s].ts_unix
    ]_vars

(***************************************************************************)
(* C25  Dedup clock monotonicity.  For every station S, once a             *)
(* last-accepted timestamp is recorded for S the entry stays, and every    *)
(* later update of it strictly increases it: the recorded value never      *)
(* decreases during a run, whatever integer timestamps (0 and negative     *)
(* ones included) the messages carry.                                      *)
(***************************************************************************)
C25_ClockMonotonic ==
    [][\A s \in DOMAIN last_station_mod :
         /\ s \in DOMAIN last_station_mod'
         /\ last_station_mod'[s] >= last_station_mod[s]
    ]_vars

(***************************************************************************)
(* C26  Written count matches stored rows.  After every committed snapshot *)
(* replacement of station S the number of StationItem rows stored for S    *)
(* equals the amount by which items_written grew for that message, also    *)
(* when two observations of the message normalize to the same catalog      *)
(* item.                                                                   *)
(***************************************************************************)
C26_WrittenMatchesRows ==
    [][\A s \in StationIds :
         ( FrameStep /\ last'.out = "committed" /\ last'.station_id = s )
         => Cardinality(RowsOf(StationItem', s))
              = stats'["items_written"] - stats["items_written"]
    ]_vars

(***************************************************************************)
(* C27  Counters unchanged on storage failure.  When the snapshot          *)
(* transaction of a message fails and is rolled back, the message changes  *)
(* none of stations_matched, items_written and items_skipped: the          *)
(* counters describe committed work only.                                  *)
(***************************************************************************)
C27_CountersOnFailure ==
    [][( FrameStep /\ last'.out = "rolled_back" )
         => \A k \in {"stations_matched", "items_written", "items_skipped"} :
               stats'[k] = stats[k]
    ]_vars

(***************************************************************************)
(* C28  No open transaction while polling.  Whenever the loop is about to  *)
(* poll for the next frame, no storage transaction begun for an earlier    *)
(* message is open and no uncommitted work of one is pending on the        *)
(* connection: what the connection sees is what is committed, whether the  *)
(* message before was accepted, stale, unresolved, filtered or failed.     *)
(***************************************************************************)
C28_NoOpenTransactionWhilePolling ==
    pc = "polling" => ~in_transaction /\ txStationItem = StationItem

\* The loop polls again after every one of those outcomes.
C28_Witness ==
    /\ pc = "polling"
    /\ received = MaxFrames
    /\ last.out = "rolled_back"
    /\ stats["stations_matched"] > 0
    /\ ~in_transaction

(***************************************************************************)
(* C29  Counter conservation.  In every reachable state every counter is   *)
(* non-negative, messages >= commodity_messages + journal_messages and     *)
(* commodity_messages >= carriers_filtered + stations_skipped +            *)
(* stations_matched (a commodity message adds to at most one of those      *)
(* three); and no step decreases a counter.                                *)
(***************************************************************************)
C29_CounterConservation ==
    /\ [](/\ \A k \in Counters : stats[k] >= 0
          /\ stats["messages"] >= stats["commodity_messages"] + stats["journal_messages"]
          /\ stats["commodity_messages"] >= stats["carriers_filtered"]
                                            + stats["stations_skipped"]
                                            + stats["stations_matched"])
    /\ [][\A k \in Counters : stats'[k] >= stats[k]]_vars

\* Both frames were commodity messages, one counted as filtered and one as
\* matched with two rows written for it: the bound is met with equality.
C29_Witness ==
    /\ stats["commodity_messages"] = MaxFrames
    /\ stats["carriers_filtered"] = 1
    /\ stats["stations_matched"] = 1
    /\ stats["items_written"] = 2
    /\ stats["commodity_messages"] = stats["carriers_filtered"] + stats["stations_skipped"]
                                     + stats["stations_matched"]

(***************************************************************************)
(* C30  Per-station isolation.  Handling a commodity message that resolves *)
(* to station S leaves the StationItem rows (committed, and as the         *)
(* connection sees them), the docking-access value and the last-accepted   *)
(* timestamp of every other station as they were, whatever the outcome     *)
(* for S.                                                                  *)
(***************************************************************************)
C30_PerStationIsolation ==
    [][\A s \in StationIds :
         ( FrameStep /\ last'.station_id = s )
         => \A t \in StationIds \ {s} :
              /\ RowsOf(StationItem', t) = RowsOf(StationItem, t)
              /\ RowsOf(txStationItem', t) = RowsOf(txStationItem, t)
              /\ docking_access'[t] = docking_access[t]
              /\ (t \in DOMAIN last_station_mod') = (t \in DOMAIN last_station_mod)
              /\ t \in DOMAIN last_station_mod => last_station_mod'[t] = last_station_mod[t]
    ]_vars

\* A snapshot of station 2 was committed after one of station 1: the rows
\* and the clock of station 1 are still those of its own message, and the
\* docking value of station 2 is the seeded one.
C30_Witness ==
    /\ last.out = "committed" /\ last.station_id = 2
    /\ applied[1].some
    /\ 1 \in DOMAIN last_station_mod /\ last_station_mod[1] = applied[1].ts_unix
    /\ RowsOf(StationItem, 1) # {}
    /\ \A r \in RowsOf(StationItem, 1) : r.modified = applied[1].ts_unix
    /\ RowsOf(StationItem, 2) # {}

====
